---- MODULE Spec2Model ----
(***************************************************************************)
(* Tokenized upload relay: the two upload handlers of the repository       *)
(*   variant "A": src/unnamed/part_000 (hand-rolled multipart parser,      *)
(*                native MongoDB driver, https helpers)                     *)
(*   variant "B": src/api/upload/index.js (busboy, mongoose model,          *)
(*                Graph SDK client and fetch)                               *)
(* run against one shared Token Store record and one storage backend.      *)
(* Every await of a handler is a step of its request, so that requests     *)
(* interleave exactly where the event loop lets them.  The Token Store is  *)
(* assumed reachable (findOne / updateOne / save do not throw).            *)
(***************************************************************************)
EXTENDS Integers, Sequences, FiniteSets, TLC

VARIABLES
    store,        \* the uploadtokens document of token TokenValue
    reqs,         \* per request slot: the handler's locals and its position
    now,          \* Date.now(), in milliseconds
    cachedToken,  \* part_000 module-level bearer token cache ("" is null)
    tokenExpiry,  \* part_000 module-level expiry of cachedToken
    used0,        \* uploadsUsed of the record in the initial state
    sumSuccess    \* sum of the success counts of the committed requests

vars == <<store, reqs, now, cachedToken, tokenExpiry, used0, sumSuccess>>

----------------------------------------------------------------------------
\* Bounds of the model

MaxFiles == 2        \* file parts per request
MaxQuota == 2        \* largest maxUploads of the token record
MaxTicks == 1        \* clock advances in one behaviour

Reqs == {"r1", "r2"}             \* request slots that may run concurrently

----------------------------------------------------------------------------
\* Program constants

MiB == 1024 * 1024
MAX_FILE_SIZE == 50 * MiB
chunkSize == 4 * MiB
RefreshSkew == 60000
ALLOWED_MIME_TYPES ==
    { "application/pdf", "image/jpeg", "image/png", "image/tiff",
      "application/vnd.openxmlformats-officedocument.wordprocessingml.document" }

TokenValue == "tok"              \* the token string of the stored record
TickStep == RefreshSkew          \* the clock advances in steps of one minute
ExpiresAt == 0                   \* expiresAt of the stored record

Min(a, b) == IF a < b THEN a ELSE b

----------------------------------------------------------------------------
\* Inputs

Variants == {"A", "B"}
Outcomes == {"2xx", "non2xx", "neterr"}   \* of one HTTP call to the backend
Tokens == {"", TokenValue, "unknown"}     \* "" : no token field in the body
Mimes == {"application/pdf", "text/plain"}
FileNames == {"a.pdf", "b.pdf"}
ExpiresIn == {120}                        \* expires_in of a credential response

FilesOf(names, mimes, sizes) ==
    [filename : names, mimeType : mimes, size : sizes]

FileSeqs(F, lo) == UNION { [1..k -> F] : k \in lo..MaxFiles }

\* A request as received: the Content-Type header has a boundary or not,
\* and the body carries a token field and file parts.
RequestsOf(bnd, toks, F, lo) ==
    [hasBoundary : bnd, token : toks, files : FileSeqs(F, lo)]

\* the requests of the one-at-a-time specification: batches that mix valid,
\* mistyped and oversized files; batches of small and chunked files; single
\* files at the size limits; batches with a missing or unknown token; two
\* files of either name; a header without boundary
Pdf == {"application/pdf"}
AllRequests ==
    RequestsOf({TRUE}, {TokenValue},
               FilesOf({"a.pdf"}, Mimes, {1, MAX_FILE_SIZE + 1}), 1)
    \cup RequestsOf({TRUE}, {TokenValue},
                    FilesOf({"a.pdf"}, Pdf, {1, chunkSize + 1}), 1)
    \cup { [hasBoundary |-> TRUE, token |-> TokenValue, files |-> <<f>>] :
             f \in FilesOf({"a.pdf"}, Pdf,
                           {chunkSize, 2 * chunkSize, MAX_FILE_SIZE}) }
    \cup RequestsOf({TRUE}, Tokens, FilesOf({"a.pdf"}, Pdf, {1}), 0)
    \cup RequestsOf({TRUE}, {TokenValue}, FilesOf(FileNames, Pdf, {1}), MaxFiles)
    \cup RequestsOf({FALSE}, {TokenValue}, FilesOf({"a.pdf"}, Pdf, {1}), MaxFiles)

\* requests that race on the token record
RacingRequests ==
    RequestsOf({TRUE}, {TokenValue}, FilesOf({"a.pdf"}, Pdf, {1}), 1)
    \cup { [hasBoundary |-> TRUE, token |-> TokenValue, files |-> <<f>>] :
             f \in FilesOf({"a.pdf"}, Pdf, {chunkSize + 1}) }

----------------------------------------------------------------------------
\* Pure functions of the handlers

\* A multipart decoder's result; ~ok is a thrown error.
Parsed(ok, token, files) == [ok |-> ok, token |-> token, files |-> files]

\* The body as a sequence of symbols, each standing for a run of bytes: the
\* delimiter "--<boundary>", a CRLF, the "--" of the closing delimiter, a
\* Content-Disposition line with its name and filename attributes ("" when
\* absent), a Content-Type line, the text of a field, n bytes of a file.
\* n is the length in bytes where the decoder measures it.
Sym(k, a, b, n) == [k |-> k, a |-> a, b |-> b, n |-> n]
Delim == Sym("delim", "", "", 0)
CRLF == Sym("crlf", "", "", 2)
Dashes == Sym("dashes", "", "", 2)
Disposition(name, filename) == Sym("disp", name, filename, 0)
ContentType(mime) == Sym("type", mime, "", 0)
Text(v) == Sym("text", v, "", 0)
Bytes(n) == Sym("bytes", "", "", n)

RECURSIVE Flatten(_)
Flatten(ss) == IF ss = <<>> THEN <<>> ELSE Head(ss) \o Flatten(Tail(ss))

\* what a client sends for a file and for the token field
FilePart(f) ==
    <<Delim, CRLF, Disposition("file", f.filename), CRLF,
      ContentType(f.mimeType), CRLF, CRLF, Bytes(f.size), CRLF>>

TokenPart(tok) ==
    <<Delim, CRLF, Disposition("token", ""), CRLF, CRLF, Text(tok), CRLF>>

\* the parts of a request whose token field comes after pos of its file
\* parts; a request without token ("") has no token field
PartsOf(req, pos) ==
    LET k == Len(req.files)
        p == Min(pos, k)
        tokenPart == IF req.token = "" THEN <<>> ELSE <<TokenPart(req.token)>>
    IN  [i \in 1..p |-> FilePart(req.files[i])]
        \o tokenPart
        \o [i \in 1..(k - p) |-> FilePart(req.files[p + i])]

\* a body: its parts one after another, then the closing delimiter
BodyOfParts(parts) == Flatten(parts) \o <<Delim, Dashes, CRLF>>

\* the well-formed body of a request whose token field is at pos
BodyOf(req, pos) == BodyOfParts(PartsOf(req, pos))

\* Buffer.indexOf: the first position >= from where pat occurs in s, 0 when
\* there is none (positions count from 1, so JavaScript's -1 is 0 here)
IndexOf(s, pat, from) ==
    LET hits == {i \in from..(Len(s) - Len(pat) + 1) :
                    SubSeq(s, i, i + Len(pat) - 1) = pat}
    IN  IF hits = {} THEN 0 ELSE CHOOSE i \in hits : \A j \in hits : i <= j

\* String.trim of a field value
Trimmed == (" tok " :> "tok")
Trim(v) == IF v \in DOMAIN Trimmed THEN Trimmed[v] ELSE v

\* content.toString().trim() of a field's content
ContentText(content) ==
    IF content = <<>> THEN ""
    ELSE IF Len(content) = 1 /\ content[1].k = "text" THEN Trim(content[1].a)
    ELSE "?"

RECURSIVE ByteLength(_)
ByteLength(content) ==
    IF content = <<>> THEN 0 ELSE Head(content).n + ByteLength(Tail(content))

\* part.slice(headerEnd + 4, part.length - 2): what follows the blank line,
\* less the last two bytes of the part
ContentOf(part, headerEnd) ==
    LET rest == SubSeq(part, headerEnd + 2, Len(part))
        last == rest[Len(rest)]
    IN  IF rest = <<>> THEN <<>>
        ELSE IF last.k = "bytes" /\ last.n > 2
        THEN SubSeq(rest, 1, Len(rest) - 1) \o <<Bytes(last.n - 2)>>
        ELSE SubSeq(rest, 1, Len(rest) - 1)

\* headerStr.match(/name="([^"]+)"/): the first name="..." of the header
\* text, which the tail of a filename="..." attribute also matches
nameMatch(headerStr) ==
    LET hits == {i \in 1..Len(headerStr) :
                    headerStr[i].k = "disp"
                        /\ (headerStr[i].a # "" \/ headerStr[i].b # "")}
        i == CHOOSE j \in hits : \A m \in hits : j <= m
    IN  IF hits = {} THEN ""
        ELSE IF headerStr[i].a # "" THEN headerStr[i].a ELSE headerStr[i].b

\* headerStr.match(/filename="([^"]+)"/)
filenameMatch(headerStr) ==
    LET hits == {i \in 1..Len(headerStr) :
                    headerStr[i].k = "disp" /\ headerStr[i].b # ""}
    IN  IF hits = {} THEN ""
        ELSE headerStr[CHOOSE j \in hits : \A m \in hits : j <= m].b

\* headerStr.match(/Content-Type:\s*(.+)/i)
mimeMatch(headerStr) ==
    LET hits == {i \in 1..Len(headerStr) :
                    headerStr[i].k = "type" /\ headerStr[i].a # ""}
    IN  IF hits = {} THEN ""
        ELSE headerStr[CHOOSE j \in hits : \A m \in hits : j <= m].a

\* a scan that gives up at a part without blank line: past the body's end
stopAtBadPart(body, nextBoundary) == Len(body) + 1

\* part_000 parseMultipart: where the scan goes on after a part without
\* blank line (start = nextBoundary + boundaryBuf.length; continue)
onBadPart(body, nextBoundary) == nextBoundary + 1

\* part_000 parseMultipart, the loop over the spans between delimiters
RECURSIVE scanParts(_, _, _, _)
scanParts(body, start, token, parts) ==
    IF start > Len(body) THEN Parsed(TRUE, token, parts)
    ELSE
      LET nextBoundary == IndexOf(body, <<Delim>>, start)
          part == SubSeq(body, start, nextBoundary - 1)
          headerEnd == IndexOf(part, <<CRLF, CRLF>>, 1)
          headerStr == SubSeq(part, 1, headerEnd - 1)
          content == ContentOf(part, headerEnd)
          name == nameMatch(headerStr)
          filename == filenameMatch(headerStr)
          mime == mimeMatch(headerStr)
      IN  IF nextBoundary = 0 THEN Parsed(TRUE, token, parts)
          ELSE IF headerEnd = 0
          THEN scanParts(body, onBadPart(body, nextBoundary), token, parts)
          ELSE IF name = "token" /\ filename = ""
          THEN scanParts(body, nextBoundary + 1, ContentText(content), parts)
          ELSE IF filename # ""
          THEN scanParts(body, nextBoundary + 1, token,
                   Append(parts,
                       [filename |-> filename,
                        mimeType |-> IF mime # "" THEN mime
                                     ELSE "application/octet-stream",
                        size |-> ByteLength(content)]))
          ELSE scanParts(body, nextBoundary + 1, token, parts)

\* part_000 parseMultipart on a body: the scan starts after the first
\* delimiter; the token is "" when no token field was found (null)
parseBodyA(body) == scanParts(body, IndexOf(body, <<Delim>>, 1) + 1, "", <<>>)

\* part_000 parseMultipart of the request whose token field is at pos:
\* throws without a boundary
parseMultipartAtA(req, pos) ==
    IF ~req.hasBoundary
    THEN Parsed(FALSE, "", <<>>)
    ELSE parseBodyA(BodyOf(req, pos))

parseMultipartA(req) == parseMultipartAtA(req, 0)

BusboyFilesLimit == 10

\* upload/index.js parseMultipart: busboy throws without a boundary (the
\* promise rejects); with limits {fileSize: MAX_FILE_SIZE, files: 10} it
\* ends a file stream after MAX_FILE_SIZE bytes and drops file parts beyond
\* the tenth; the handler never looks at the 'limit' events.
parseMultipartB(req) ==
    IF ~req.hasBoundary
    THEN Parsed(FALSE, "", <<>>)
    ELSE Parsed(TRUE, req.token,
                [i \in 1..Min(Len(req.files), BusboyFilesLimit) |->
                    [req.files[i] EXCEPT !.size = Min(@, MAX_FILE_SIZE)]])

parseMultipart(v, req) ==
    IF v = "A" THEN parseMultipartA(req) ELSE parseMultipartB(req)

\* uploadTokenSchema.methods.isValid
isValid(doc, t) ==
    IF doc.status = "revoked" THEN FALSE
    ELSE IF doc.expiresAt < t THEN FALSE
    ELSE IF doc.uploadsUsed >= doc.maxUploads THEN FALSE
    ELSE TRUE

\* part_000: the inline validity test of the upload handler
tokenRejectedA(doc, t) ==
    doc.status = "revoked" \/ doc.expiresAt < t
        \/ doc.uploadsUsed >= doc.maxUploads

tokenRejected(v, doc, t) ==
    IF v = "A" THEN tokenRejectedA(doc, t) ELSE ~isValid(doc, t)

remainingOf(doc) == doc.maxUploads - doc.uploadsUsed

\* a quota test that also turns away a batch that exactly fits
tooManyFilesInclusive(files, remaining) == Len(files) >= remaining

tooManyFiles(files, remaining) == Len(files) > remaining

mimeAllowed(file) == file.mimeType \in ALLOWED_MIME_TYPES

tooLarge(file) == file.size > MAX_FILE_SIZE

\* Responses.  status 0: no response yet.
Response(status, error, file, remaining) ==
    [status |-> status, error |-> error, file |-> file, remaining |-> remaining]

NoResponse == Response(0, "", "", -1)

\* a validation that looks at the first file only
validateFirstFileOnly(files) ==
    IF ~mimeAllowed(files[1])
    THEN Response(400, "File type not allowed", files[1].filename, -1)
    ELSE IF tooLarge(files[1])
    THEN Response(400, "File too large", files[1].filename, -1)
    ELSE NoResponse

\* part_000: one loop over the files, the type test before the size test
validateFilesA(files) ==
    LET bad == {i \in 1..Len(files) :
                    ~mimeAllowed(files[i]) \/ tooLarge(files[i])}
    IN  IF bad = {} THEN NoResponse
        ELSE LET i == CHOOSE j \in bad : \A k \in bad : j <= k
             IN  IF ~mimeAllowed(files[i])
                 THEN Response(400, "File type not allowed", files[i].filename, -1)
                 ELSE Response(400, "File too large", files[i].filename, -1)

\* upload/index.js: the type test only
validateFilesB(files) ==
    LET bad == {i \in 1..Len(files) : ~mimeAllowed(files[i])}
    IN  IF bad = {} THEN NoResponse
        ELSE LET i == CHOOSE j \in bad : \A k \in bad : j <= k
             IN  Response(400, "File type not allowed", files[i].filename, -1)

validateFiles(v, files) ==
    IF v = "A" THEN validateFilesA(files) ELSE validateFilesB(files)

\* size routing of both handlers
usesSmallPut(size) == size <= 4 * MiB

\* a range end one byte too far for every chunk but the last
rangeEndInclusive(i, len) == Min(i + chunkSize, len - 1)

\* Content-Range of the chunk at offset i of a buffer of len bytes
rangeEnd(i, len) == Min(i + chunkSize - 1, len - 1)

\* the chunk sent: buffer.slice(i, Math.min(i + chunkSize, len)), the bytes
\* from i up to but not including to
chunkSlice(i, len) == [from |-> i, to |-> Min(i + chunkSize, len)]

\* httpsRequest (part_000) and the Graph SDK client (upload/index.js) reject
\* on every response that is not 2xx and on a transport error.
requestResolves(o) == o = "2xx"

\* fetch (upload/index.js chunk PUT) rejects on a transport error only; the
\* handler never looks at the response it resolves to.
fetchResolves(o) == o # "neterr"

chunkPutResolves(v, o) ==
    IF v = "A" THEN requestResolves(o) ELSE fetchResolves(o)

\* a cache test without the 60 s margin
cacheFreshNoSkew(tok, expiry, t) == tok # "" /\ t < expiry

\* getAccessToken: tokenExpiry set from the expires_in (seconds) of a
\* credential response handled at instant t
expiryOf(t, expiresIn) == t + expiresIn * 1000

\* getAccessToken: the cached token is returned without a network call
cacheFresh(tok, expiry, t) == tok # "" /\ t < expiry - RefreshSkew

----------------------------------------------------------------------------
\* State of one request: the handler's locals, and what it did so far

NoCall == [file |-> 0, kind |-> "", start |-> 0, end |-> 0, total |-> 0,
           outcome |-> ""]

NoDoc == [maxUploads |-> 0, uploadsUsed |-> 0]

NoRequest == [hasBoundary |-> TRUE, token |-> "", files |-> <<>>]

Idle ==
    [ pc |-> "idle",          \* idle, lookup, upload, chunk, commit, done
      variant |-> "A",
      req |-> NoRequest,      \* the request as received
      files |-> <<>>,         \* files, token: the decoder's result
      token |-> "",
      doc |-> NoDoc,          \* uploadToken: the record as read (B: and
                              \* modified in memory)
      remaining |-> 0,
      i |-> 0,                \* index of the file being uploaded
      ts |-> 0,               \* Date.now() of that file's storage path
      off |-> 0,              \* offset of the next chunk
      bearer |-> FALSE,       \* getAccessToken has returned for this call
      results |-> <<>>,       \* uploadResults: one success flag per file
      staged |-> <<>>,        \* newUploads (A), pushed uploads (B)
      res |-> NoResponse,     \* context.res
      last |-> NoCall,        \* the last call made to the storage backend
      ncalls |-> 0,           \* number of calls made to the storage backend
      curOk |-> TRUE,         \* every call for file i was answered 2xx
      relayed |-> <<>>,       \* per finished file: every call answered 2xx
      usedAtLookup |-> 0,     \* the record's uploadsUsed and number of
      lenAtLookup |-> 0,      \* history entries when findOne read it
      body |-> [from |-> 0, to |-> 0],   \* the bytes of the last chunk PUT
      sent |-> 0,             \* bytes of the chunk PUTs of the current session
      at |-> -1,              \* the clock when findOne answered (-1: not yet)
      reason |-> "",          \* the reason field of the response, if any
      wrote |-> 0 ]           \* writes made to the Token Store

Finish(q, response) == [q EXCEPT !.pc = "done", !.res = response]

successCount(results) == Cardinality({k \in 1..Len(results) : results[k]})

\* records one call to the storage backend and its outcome
Call(q, kind, start, end, total, o) ==
    [q EXCEPT !.last = [file |-> q.i, kind |-> kind, start |-> start,
                        end |-> end, total |-> total, outcome |-> o],
              !.ncalls = @ + 1,
              !.curOk = @ /\ o = "2xx"]

EarlierFile == [filename |-> "earlier.pdf", mimeType |-> "application/pdf",
                size |-> 1]

HistoryEntry(file, ts) == [fileName |-> file.filename, ts |-> ts]

\* the end of one iteration of the upload loop: the try block completed
\* (success) or threw into the per-file catch; then the next file, whose
\* storage path takes Date.now(), or the commit
FileDone(q, success, t) ==
    [q EXCEPT !.results = Append(@, success),
              !.staged = IF success
                         THEN Append(@, HistoryEntry(q.files[q.i], q.ts))
                         ELSE @,
              !.doc.uploadsUsed = IF success /\ q.variant = "B" THEN @ + 1 ELSE @,
              !.relayed = Append(@, q.curOk),
              !.curOk = TRUE,
              !.bearer = FALSE,
              !.off = 0,
              !.i = @ + 1,
              !.ts = t,
              !.pc = IF q.i = Len(q.files) THEN "commit" ELSE "upload"]

\* part_000: updateOne with $inc and $push, only when a file succeeded
commitA(st, q) ==
    IF successCount(q.results) > 0
    THEN [st EXCEPT !.uploadsUsed = @ + successCount(q.results),
                    !.uploads = @ \o q.staged]
    ELSE st

\* upload/index.js: uploadToken.save() writes the modified paths of the
\* document: $set of uploadsUsed to the in-memory value, $push of the
\* entries pushed to uploads; nothing when no path was modified
saveB(st, q) ==
    IF q.staged # <<>>
    THEN [st EXCEPT !.uploadsUsed = q.doc.uploadsUsed,
                    !.uploads = @ \o q.staged]
    ELSE st

commitStore(st, q) == IF q.variant = "A" THEN commitA(st, q) ELSE saveB(st, q)

\* remainingUploads of the 200 response
remainingUploadsA(q) == q.remaining - successCount(q.results)
remainingUploadsB(q) == q.doc.maxUploads - q.doc.uploadsUsed
remainingUploads(q) ==
    IF q.variant = "A" THEN remainingUploadsA(q) ELSE remainingUploadsB(q)

----------------------------------------------------------------------------
\* Initial state: a token record some of whose uploads may have been used by
\* earlier requests, one history entry per upload; no request in flight

Statuses == {"active", "expired", "revoked"}

Init ==
    /\ \E s \in Statuses, m \in 1..MaxQuota, u \in 0..MaxQuota :
          /\ u <= m
          /\ store = [status |-> s, expiresAt |-> ExpiresAt, maxUploads |-> m,
                      uploadsUsed |-> u,
                      uploads |-> [k \in 1..u |-> HistoryEntry(EarlierFile, 0)]]
          /\ used0 = u
    /\ reqs = [r \in Reqs |-> Idle]
    /\ now = 0
    /\ cachedToken = ""
    /\ tokenExpiry = 0
    /\ sumSuccess = 0

----------------------------------------------------------------------------
\* Steps of the upload handler

\* The request arrives: decode, then the two checks made before the first
\* await on the Token Store.  A decoder error is caught by the handler's
\* top-level catch.
Receive(r, v, req) ==
    /\ reqs[r].pc = "idle"
    /\ LET p == parseMultipart(v, req)
           q == [Idle EXCEPT !.variant = v, !.req = req]
       IN  reqs' = [reqs EXCEPT ![r] =
             IF ~p.ok
             THEN Finish(q, Response(500, "Internal server error", "", -1))
             ELSE IF p.token = ""
             THEN Finish(q, Response(400, "Token is required", "", -1))
             ELSE IF Len(p.files) = 0
             THEN Finish(q, Response(400, "No files provided", "", -1))
             ELSE [q EXCEPT !.pc = "lookup", !.files = p.files,
                            !.token = p.token]]
    /\ UNCHANGED <<store, now, cachedToken, tokenExpiry, used0, sumSuccess>>

\* a not-found answer that tells the client the token does not exist
notFound404 == Response(404, "Invalid upload link", "", -1)

\* the upload handlers' answer to a token that findOne did not find
tokenNotFound == Response(410, "Upload link is no longer valid", "", -1)

\* the upload handlers' answer to a token that is revoked, expired or used up
tokenInvalid == Response(410, "Upload link is no longer valid", "", -1)

\* findOne answers; then every remaining precondition check, none of which
\* awaits
Lookup(r) ==
    LET q0 == reqs[r]
        q == [q0 EXCEPT !.at = now, !.usedAtLookup = store.uploadsUsed,
                        !.lenAtLookup = Len(store.uploads)]
        remaining == remainingOf(store)
        check == validateFiles(q.variant, q.files)
    IN  /\ q.pc = "lookup"
        /\ reqs' = [reqs EXCEPT ![r] =
             IF q.token # TokenValue THEN Finish(q, tokenNotFound)
             ELSE IF tokenRejected(q.variant, store, now)
             THEN Finish(q, tokenInvalid)
             ELSE IF tooManyFiles(q.files, remaining)
             THEN Finish(q, Response(400, "Only N upload(s) remaining", "",
                                     remaining))
             ELSE IF check.status # 0 THEN Finish(q, check)
             ELSE [q EXCEPT !.pc = "upload",
                            !.doc = [maxUploads |-> store.maxUploads,
                                     uploadsUsed |-> store.uploadsUsed],
                            !.remaining = remaining,
                            !.i = 1,
                            !.ts = now]]
        /\ UNCHANGED <<store, now, cachedToken, tokenExpiry, used0, sumSuccess>>

\* part_000 getAccessToken, on a stale or empty cache: the client-credentials
\* exchange.  Its failure throws out of graphPut / graphPost, inside the
\* per-file try.
Exchange(r, o, expiresIn) ==
    LET q == reqs[r]
        c == Call(q, "cred", 0, 0, 0, o)
    IN  /\ q.pc = "upload"
        /\ q.variant = "A"
        /\ ~q.bearer
        /\ ~cacheFresh(cachedToken, tokenExpiry, now)
        /\ IF requestResolves(o)
           THEN /\ cachedToken' = "bearer"
                /\ tokenExpiry' = expiryOf(now, expiresIn)
                /\ reqs' = [reqs EXCEPT ![r] = [c EXCEPT !.bearer = TRUE]]
           ELSE /\ reqs' = [reqs EXCEPT ![r] = FileDone(c, FALSE, now)]
                /\ UNCHANGED <<cachedToken, tokenExpiry>>
        /\ UNCHANGED <<store, now, used0, sumSuccess>>

\* the handler holds a bearer token for its next Graph call
Authorized(q) ==
    \/ q.variant = "B"
    \/ q.bearer
    \/ cacheFresh(cachedToken, tokenExpiry, now)

\* the small-file PUT of the whole buffer
PutSmall(r, o) ==
    LET q == reqs[r]
        size == q.files[q.i].size
        c == Call(q, "put", 0, size - 1, size, o)
    IN  /\ q.pc = "upload"
        /\ usesSmallPut(size)
        /\ Authorized(q)
        /\ reqs' = [reqs EXCEPT ![r] = FileDone(c, requestResolves(o), now)]
        /\ UNCHANGED <<store, now, cachedToken, tokenExpiry, used0, sumSuccess>>

\* createUploadSession for a large file
CreateSession(r, o) ==
    LET q == reqs[r]
        size == q.files[q.i].size
        c == Call(q, "session", 0, 0, size, o)
    IN  /\ q.pc = "upload"
        /\ ~usesSmallPut(size)
        /\ Authorized(q)
        /\ reqs' = [reqs EXCEPT ![r] =
             IF requestResolves(o)
             THEN [c EXCEPT !.pc = "chunk", !.off = 0, !.bearer = FALSE,
                            !.sent = 0]
             ELSE FileDone(c, FALSE, now)]
        /\ UNCHANGED <<store, now, cachedToken, tokenExpiry, used0, sumSuccess>>

\* one iteration of the chunk loop: the ranged PUT of the chunk at off
PutChunk(r, o) ==
    LET q == reqs[r]
        size == q.files[q.i].size
        chunk == chunkSlice(q.off, size)
        c == [Call(q, "chunk", q.off, rangeEnd(q.off, size), size, o)
                EXCEPT !.body = chunk, !.sent = @ + (chunk.to - chunk.from)]
    IN  /\ q.pc = "chunk"
        /\ reqs' = [reqs EXCEPT ![r] =
             IF ~chunkPutResolves(q.variant, o) THEN FileDone(c, FALSE, now)
             ELSE IF q.off + chunkSize < size
             THEN [c EXCEPT !.off = @ + chunkSize]
             ELSE FileDone(c, TRUE, now)]
        /\ UNCHANGED <<store, now, cachedToken, tokenExpiry, used0, sumSuccess>>

\* the commit to the Token Store and the 200 response
Commit(r) ==
    LET q == reqs[r]
        st == commitStore(store, q)
    IN  /\ q.pc = "commit"
        /\ store' = st
        /\ sumSuccess' = sumSuccess + successCount(q.results)
        /\ reqs' = [reqs EXCEPT ![r] =
             [Finish(q, Response(200, "", "", remainingUploads(q)))
                EXCEPT !.wrote = IF st # store THEN @ + 1 ELSE @]]
        /\ UNCHANGED <<now, cachedToken, tokenExpiry, used0>>

\* time passes
Tick ==
    /\ now < MaxTicks * TickStep
    /\ now' = now + TickStep
    /\ UNCHANGED <<store, reqs, cachedToken, tokenExpiry, used0, sumSuccess>>

Step(r, O) ==
    \/ Lookup(r)
    \/ \E o \in O, e \in ExpiresIn : Exchange(r, o, e)
    \/ \E o \in O : PutSmall(r, o)
    \/ \E o \in O : CreateSession(r, o)
    \/ \E o \in O : PutChunk(r, o)
    \/ Commit(r)

\* one request at a time, any request
Next ==
    \/ \E v \in Variants, req \in AllRequests : Receive("r1", v, req)
    \/ Step("r1", Outcomes)
    \/ Tick

Spec == Init /\ [][Next]_vars

\* requests that pass every check, racing on the token record
NextRace ==
    \/ \E r \in Reqs, v \in Variants, req \in RacingRequests : Receive(r, v, req)
    \/ \E r \in Reqs : Step(r, {"2xx", "non2xx"})

SpecRace == Init /\ [][NextRace]_vars

----------------------------------------------------------------------------
\* The status-check handlers: "N" is api/tokenCheck/index.js (native driver),
\* "M" is part_001 (mongoose model)

CheckVariants == {"N", "M"}

\* a status-check response with its reason field ("" when the body has none)
CheckResponse(status, error, reason, remaining) ==
    [res |-> Response(status, error, "", remaining), reason |-> reason]

\* tokenCheck/index.js, from the findOne answer to the user lookup
tokenCheckN(found, doc, t) ==
    LET isRevoked == doc.status = "revoked"
        isExpired == doc.expiresAt < t
        limitReached == doc.uploadsUsed >= doc.maxUploads
    IN  IF ~found THEN CheckResponse(404, "Invalid upload link", "", -1)
        ELSE IF isRevoked \/ isExpired \/ limitReached
        THEN CheckResponse(410, "Upload link is no longer valid",
                 IF isRevoked THEN "revoked"
                 ELSE IF isExpired THEN "expired" ELSE "limit_reached", -1)
        ELSE CheckResponse(200, "", "", doc.maxUploads - doc.uploadsUsed)

\* part_001, from the findOne answer to the user lookup
tokenCheckM(found, doc, t) ==
    IF ~found THEN CheckResponse(404, "Invalid upload link", "", -1)
    ELSE IF ~isValid(doc, t)
    THEN CheckResponse(410, "Upload link is no longer valid",
             IF doc.status = "revoked" THEN "revoked"
             ELSE IF doc.expiresAt < t THEN "expired" ELSE "limit_reached", -1)
    ELSE CheckResponse(200, "", "", doc.maxUploads - doc.uploadsUsed)

tokenCheck(v, found, doc, t) ==
    IF v = "N" THEN tokenCheckN(found, doc, t) ELSE tokenCheckM(found, doc, t)

\* the status check arrives: the token of the query or body is required
CheckReceive(r, v, tok) ==
    /\ reqs[r].pc = "idle"
    /\ LET q == [Idle EXCEPT !.variant = v, !.token = tok]
       IN  reqs' = [reqs EXCEPT ![r] =
             IF tok = ""
             THEN Finish(q, Response(400, "Token is required", "", -1))
             ELSE [q EXCEPT !.pc = "check"]]
    /\ UNCHANGED <<store, now, cachedToken, tokenExpiry, used0, sumSuccess>>

\* findOne answers: 404, 410 with a reason, or on to the user lookup
CheckLookup(r) ==
    LET q0 == reqs[r]
        q == [q0 EXCEPT !.at = now, !.usedAtLookup = store.uploadsUsed,
                        !.lenAtLookup = Len(store.uploads)]
        c == tokenCheck(q.variant, q.token = TokenValue, store, now)
    IN  /\ q.pc = "check"
        /\ reqs' = [reqs EXCEPT ![r] =
             IF c.res.status # 200
             THEN [Finish(q, c.res) EXCEPT !.reason = c.reason]
             ELSE [q EXCEPT !.pc = "user", !.doc = store,
                            !.remaining = c.res.remaining]]
        /\ UNCHANGED <<store, now, cachedToken, tokenExpiry, used0, sumSuccess>>

\* the user lookup answers: 200 with the figures of the record read earlier
CheckUser(r) ==
    LET q == reqs[r]
    IN  /\ q.pc = "user"
        /\ reqs' = [reqs EXCEPT ![r] =
                      Finish(q, Response(200, "", "", q.remaining))]
        /\ UNCHANGED <<store, now, cachedToken, tokenExpiry, used0, sumSuccess>>

CheckStep(r) ==
    \/ \E v \in CheckVariants, tok \in Tokens : CheckReceive(r, v, tok)
    \/ CheckLookup(r)
    \/ CheckUser(r)

\* any token record: every status, expiry at each instant the clock shows,
\* every quota and use
InitAnyToken ==
    /\ \E s \in Statuses, x \in 0..MaxTicks, m \in 1..MaxQuota, u \in 0..MaxQuota :
          /\ u <= m
          /\ store = [status |-> s, expiresAt |-> x * TickStep, maxUploads |-> m,
                      uploadsUsed |-> u,
                      uploads |-> [k \in 1..u |-> HistoryEntry(EarlierFile, 0)]]
          /\ used0 = u
    /\ reqs = [r \in Reqs |-> Idle]
    /\ now = 0
    /\ cachedToken = ""
    /\ tokenExpiry = 0
    /\ sumSuccess = 0

\* the uploads that accompany the status checks: one small or one chunked
\* file, with a known or an unknown token
CheckedUploads ==
    { [hasBoundary |-> TRUE, token |-> t, files |-> <<f>>] :
         t \in {TokenValue, "unknown"},
         f \in FilesOf({"a.pdf"}, Pdf, {1, chunkSize + 1}) }

\* uploads and status checks on any token record, while time passes
NextCheck ==
    \/ \E r \in Reqs, v \in Variants, req \in CheckedUploads : Receive(r, v, req)
    \/ \E r \in Reqs : Step(r, {"2xx"})
    \/ \E r \in Reqs : CheckStep(r)
    \/ Tick

SpecCheck == InitAnyToken /\ [][NextCheck]_vars

----------------------------------------------------------------------------
\* getAccessToken of part_000 on its own: callers share the module-level
\* cache; a call either returns the cached token at once or awaits the POST
\* to the identity provider

BearerTokens == {"bearer", "bearer2"}     \* access_token of a response
ExpiresInAny == {60, 61, 120, 180}        \* expires_in of a response, seconds

Cache(tok, expiry) == [token |-> tok, expiry |-> expiry]

NoTokenResponse == [access_token |-> "", expires_in |-> 0]

\* a caller of getAccessToken
NoCaller ==
    [ pc |-> "idle",             \* idle, cred (awaiting the POST), done
      calledAt |-> -1,           \* Date.now() of the cache test
      seen |-> Cache("", 0),     \* the cache as the test saw it
      source |-> "",             \* cache, exchange or error (the call threw)
      returned |-> "",           \* the token returned
      response |-> NoTokenResponse,   \* the body of the POST's answer
      answeredAt |-> -1,         \* Date.now() when the answer was handled
      after |-> Cache("", 0) ]   \* the cache right after the call returned

InitCache ==
    /\ store = [status |-> "active", expiresAt |-> ExpiresAt, maxUploads |-> 1,
                uploadsUsed |-> 0, uploads |-> <<>>]
    /\ used0 = 0
    /\ reqs = [r \in Reqs |-> NoCaller]
    /\ now = 0
    /\ cachedToken = ""
    /\ tokenExpiry = 0
    /\ sumSuccess = 0

\* the call: the cache test, then the cached token or the POST
GetAccessToken(r) ==
    LET c == [NoCaller EXCEPT !.calledAt = now,
                              !.seen = Cache(cachedToken, tokenExpiry)]
    IN  /\ reqs[r].pc \in {"idle", "done"}
        /\ reqs' = [reqs EXCEPT ![r] =
             IF cacheFresh(cachedToken, tokenExpiry, now)
             THEN [c EXCEPT !.pc = "done", !.source = "cache",
                            !.returned = cachedToken,
                            !.after = Cache(cachedToken, tokenExpiry)]
             ELSE [c EXCEPT !.pc = "cred"]]
        /\ UNCHANGED <<store, now, cachedToken, tokenExpiry, used0, sumSuccess>>

\* the POST answers: the cache is set from the body, or the call throws
TokenAnswer(r, o, tok, expiresIn) ==
    LET c == reqs[r]
    IN  /\ c.pc = "cred"
        /\ IF requestResolves(o)
           THEN /\ cachedToken' = tok
                /\ tokenExpiry' = expiryOf(now, expiresIn)
                /\ reqs' = [reqs EXCEPT ![r] =
                     [c EXCEPT !.pc = "done", !.source = "exchange",
                               !.returned = tok,
                               !.response = [access_token |-> tok,
                                             expires_in |-> expiresIn],
                               !.answeredAt = now,
                               !.after = Cache(tok, expiryOf(now, expiresIn))]]
           ELSE /\ reqs' = [reqs EXCEPT ![r] =
                     [c EXCEPT !.pc = "done", !.source = "error",
                               !.answeredAt = now,
                               !.after = Cache(cachedToken, tokenExpiry)]]
                /\ UNCHANGED <<cachedToken, tokenExpiry>>
        /\ UNCHANGED <<store, now, used0, sumSuccess>>

NextCache ==
    \/ \E r \in Reqs : GetAccessToken(r)
    \/ \E r \in Reqs, o \in Outcomes, tok \in BearerTokens, e \in ExpiresInAny :
          TokenAnswer(r, o, tok, e)
    \/ Tick

SpecCache == InitCache /\ [][NextCache]_vars

----------------------------------------------------------------------------
\* The multipart decoders on their own: a well-formed body is decoded

\* the position of the token field among the file parts
Positions == 0..MaxFiles

\* well-formed requests: a token, padded or not, and up to MaxFiles files of
\* either name and type, empty, small or larger than MAX_FILE_SIZE
DecodedRequests ==
    RequestsOf({TRUE}, {TokenValue, " tok "},
               FilesOf(FileNames, Mimes, {0, 1, MAX_FILE_SIZE + 1}), 0)

parseMultipartAt(v, req, pos) ==
    IF v = "A" THEN parseMultipartAtA(req, pos) ELSE parseMultipartB(req)

\* a call of parseMultipart
NoDecode ==
    [ pc |-> "idle",
      variant |-> "A",
      req |-> NoRequest,               \* what the client encoded
      pos |-> 0,                       \* where it put the token field
      out |-> Parsed(TRUE, "", <<>>) ] \* what the decoder returned

InitDecode ==
    /\ store = [status |-> "active", expiresAt |-> ExpiresAt, maxUploads |-> 1,
                uploadsUsed |-> 0, uploads |-> <<>>]
    /\ used0 = 0
    /\ reqs = [r \in Reqs |-> NoDecode]
    /\ now = 0
    /\ cachedToken = ""
    /\ tokenExpiry = 0
    /\ sumSuccess = 0

Decode(r, v, req, pos) ==
    /\ reqs[r].pc = "idle"
    /\ pos <= Len(req.files)
    /\ reqs' = [reqs EXCEPT ![r] =
                  [pc |-> "done", variant |-> v, req |-> req, pos |-> pos,
                   out |-> parseMultipartAt(v, req, pos)]]
    /\ UNCHANGED <<store, now, cachedToken, tokenExpiry, used0, sumSuccess>>

NextDecode ==
    \E v \in Variants, req \in DecodedRequests, pos \in Positions :
        Decode("r1", v, req, pos)

SpecDecode == InitDecode /\ [][NextDecode]_vars

----------------------------------------------------------------------------
\* The part_000 decoder on a body one of whose parts has no blank line
\* between its header and its content

InsertAt(seq, j, x) == SubSeq(seq, 1, j) \o <<x>> \o SubSeq(seq, j + 1, Len(seq))

\* parts without CRLFCRLF: a file part and a token field whose header runs
\* into the content, a header alone, an empty part, content alone
BrokenParts ==
    { <<Delim, CRLF, Disposition("file", "x.pdf"), CRLF,
        ContentType("application/pdf"), CRLF, Bytes(1), CRLF>>,
      <<Delim, CRLF, Disposition("token", ""), CRLF, Text("unknown"), CRLF>>,
      <<Delim, CRLF, Disposition("file", "x.pdf"), CRLF>>,
      <<Delim>>,
      <<Delim, Bytes(1), CRLF>> }

\* the well-formed requests a broken part is put into
SkipRequests ==
    RequestsOf({TRUE}, {"", TokenValue}, FilesOf(FileNames, Mimes, {1}), 0)

\* a call of parseMultipart on a body with a broken part
NoSkip ==
    [ pc |-> "idle",
      req |-> NoRequest,               \* what the sound parts encode
      pos |-> 0,                       \* where the token field is
      bad |-> <<>>,                    \* the broken part
      j |-> 0,                         \* how many sound parts precede it
      out |-> Parsed(TRUE, "", <<>>),  \* the result for the body
      ref |-> Parsed(TRUE, "", <<>>) ] \* the result without the broken part

InitSkip ==
    /\ store = [status |-> "active", expiresAt |-> ExpiresAt, maxUploads |-> 1,
                uploadsUsed |-> 0, uploads |-> <<>>]
    /\ used0 = 0
    /\ reqs = [r \in Reqs |-> NoSkip]
    /\ now = 0
    /\ cachedToken = ""
    /\ tokenExpiry = 0
    /\ sumSuccess = 0

DecodeBroken(r, req, pos, bad, j) ==
    LET parts == PartsOf(req, pos)
    IN  /\ reqs[r].pc = "idle"
        /\ pos <= Len(req.files)
        /\ j <= Len(parts)
        /\ reqs' = [reqs EXCEPT ![r] =
             [pc |-> "done", req |-> req, pos |-> pos, bad |-> bad, j |-> j,
              out |-> parseBodyA(BodyOfParts(InsertAt(parts, j, bad))),
              ref |-> parseBodyA(BodyOfParts(parts))]]
        /\ UNCHANGED <<store, now, cachedToken, tokenExpiry, used0, sumSuccess>>

NextSkip ==
    \E req \in SkipRequests, pos \in Positions, bad \in BrokenParts,
       j \in 0..(MaxFiles + 1) :
        DecodeBroken("r1", req, pos, bad, j)

SpecSkip == InitSkip /\ [][NextSkip]_vars

TypeOK ==
    /\ store.uploadsUsed \in Nat
    /\ now \in Nat
    /\ \A r \in Reqs : reqs[r].pc \in {"idle", "lookup", "upload", "chunk", "commit",
                                      "check", "user", "cred", "done"}

----------------------------------------------------------------------------
\* Vocabulary of the properties

Req(r) == reqs[r]

\* the request passed every precondition check
Validated(q) ==
    \/ q.pc \in {"upload", "chunk", "commit"}
    \/ q.pc = "done" /\ q.res.status = 200

Quiescent == \A r \in Reqs : Req(r).pc \in {"idle", "done"}

FileNamesOf(files, flags) ==
    LET keep == {k \in 1..Len(files) : flags[k]}
        nth(n) == CHOOSE k \in keep : Cardinality({j \in keep : j < k}) = n - 1
    IN  [n \in 1..Cardinality(keep) |-> files[nth(n)].filename]

AppendedNames(q) ==
    [n \in 1..(Len(store.uploads) - q.lenAtLookup) |->
        store.uploads[q.lenAtLookup + n].fileName]

----------------------------------------------------------------------------
\* C1: in every reachable state, under any interleaving of upload requests
\* on the token, the record's uploadsUsed is at most its maxUploads.
C1_QuotaNeverExceeded == store.uploadsUsed <= store.maxUploads

\* C2: a request that passed the checks and relayed S of its files leaves
\* uploadsUsed at its value before plus S and has appended exactly the S
\* history entries of the relayed files, in file order; with S = 0 it wrote
\* nothing.
C2_CommitCountsRelayedFiles ==
    \A r \in Reqs :
        LET q == Req(r)
            S == successCount(q.relayed)
        IN  (q.pc = "done" /\ q.res.status = 200) =>
                /\ store.uploadsUsed = q.usedAtLookup + S
                /\ Len(store.uploads) = q.lenAtLookup + S
                /\ AppendedNames(q) = FileNamesOf(q.files, q.relayed)
                /\ (S = 0 => q.wrote = 0)

\* C3: once all concurrent requests have completed, uploadsUsed is its
\* initial value plus the sum of their success counts, and the uploads list
\* has grown by that same number of entries.
C3_CommitsAddUp ==
    Quiescent =>
        /\ store.uploadsUsed = used0 + sumSuccess
        /\ Len(store.uploads) = used0 + sumSuccess

\* C4: no step ever writes a smaller uploadsUsed than the one stored.
C4_UsedNeverDecreases == [][store'.uploadsUsed >= store.uploadsUsed]_vars

\* C5: a request with a file part of more than 50 MiB never gets past the
\* checks; the "File too large" response is a 400 naming a file that is over
\* the limit, given before any storage call; no file of at most 50 MiB
\* triggers it.
C5_OversizeRejected ==
    \A r \in Reqs :
        LET q == Req(r)
            over == {k \in 1..Len(q.req.files) :
                        q.req.files[k].size > MAX_FILE_SIZE}
        IN  /\ Validated(q) => over = {}
            /\ q.res.error = "File too large" =>
                  /\ q.res.status = 400
                  /\ q.ncalls = 0
                  /\ \E k \in over : q.req.files[k].filename = q.res.file
            /\ over = {} => q.res.error # "File too large"

\* C6: after a storage call of a file was answered non-2xx no further call
\* is made for that file and the file is recorded as failed; chunks go out
\* in increasing, contiguous offset order, each after the previous one's 2xx.
C6_NonOkAbortsFile ==
    \A r \in Reqs :
        LET q == Req(r)
        IN  /\ (q.pc = "chunk" /\ q.last.file = q.i) => q.last.outcome = "2xx"
            /\ (q.pc = "chunk" /\ q.last.file = q.i /\ q.last.kind = "chunk") =>
                    q.off = q.last.end + 1
            /\ \A k \in 1..Len(q.results) : ~q.relayed[k] => ~q.results[k]

\* C7: a validated batch always ends with a 200 response whose results hold
\* one entry per file, in file order, each success flag being that file's
\* upload outcome; files are attempted one after the other whatever the
\* earlier outcomes.
C7_FailureIsolated ==
    \A r \in Reqs :
        LET q == Req(r)
        IN  /\ q.pc \in {"upload", "chunk"} => q.i = Len(q.results) + 1
            /\ q.pc = "commit" => Len(q.results) = Len(q.files)
            /\ (q.pc = "done" /\ q.i >= 1) =>
                  /\ q.res.status = 200
                  /\ Len(q.results) = Len(q.files)
                  /\ \A k \in 1..Len(q.files) : q.results[k] = q.relayed[k]

\* C8: a request with more files than the remaining quota is turned away
\* with a 400 that carries exactly maxUploads - uploadsUsed, after no storage
\* call and no write to the record; no such request gets past the quota
\* check.
C8_TooManyFilesRejected ==
    \A r \in Reqs :
        LET q == Req(r)
            remaining == store.maxUploads - used0
        IN  /\ q.res.error = "Only N upload(s) remaining" =>
                  /\ q.pc = "done" /\ q.res.status = 400
                  /\ q.res.remaining = remaining
                  /\ Len(q.files) > remaining
                  /\ q.ncalls = 0 /\ q.wrote = 0
                  /\ store.uploadsUsed = used0
                  /\ Len(store.uploads) = used0
            /\ (Validated(q) \/ q.res.error \in {"File type not allowed",
                                                 "File too large"})
                  => Len(q.files) <= remaining

C8_Witness ==
    \E r \in Reqs :
        /\ Req(r).pc = "done"
        /\ Req(r).res.error = "Only N upload(s) remaining"
        /\ Req(r).res.remaining = 1
        /\ Len(Req(r).files) = 2

\* C9: a request answered 400 or 410 made no call to the storage backend
\* and no write to the record, which is as it was; a batch with a
\* disallowed MIME type anywhere never reaches the upload loop.
C9_RejectedHasNoEffect ==
    \A r \in Reqs :
        LET q == Req(r)
        IN  /\ (q.pc = "done" /\ q.res.status \in {400, 410}) =>
                  /\ q.ncalls = 0 /\ q.wrote = 0
                  /\ cachedToken = ""
                  /\ store.uploadsUsed = used0
                  /\ Len(store.uploads) = used0
            /\ Validated(q) =>
                  \A k \in 1..Len(q.files) : mimeAllowed(q.files[k])

C9_Witness ==
    \E r \in Reqs :
        LET q == Req(r)
        IN  /\ q.pc = "done" /\ q.res.status = 400
            /\ q.res.error = "File type not allowed"
            /\ Len(q.files) = 2
            /\ mimeAllowed(q.files[1]) /\ ~mimeAllowed(q.files[2])
            /\ q.ncalls = 0

\* C10: a request whose Content-Type has no boundary is answered 400.
C10_NoBoundaryIs400 ==
    \A r \in Reqs :
        (Req(r).pc = "done" /\ ~Req(r).req.hasBoundary) => Req(r).res.status = 400

----------------------------------------------------------------------------
\* A token is usable at instant t: not revoked, t before its expiry, quota
\* not used up
Usable(doc, t) ==
    /\ doc.status # "revoked"
    /\ t < doc.expiresAt
    /\ doc.uploadsUsed < doc.maxUploads

\* the token record as findOne showed it to the request
Seen(q) == [store EXCEPT !.uploadsUsed = q.usedAtLookup]

\* the request's token was found and the validity check has let it pass
Accepted(q) == q.at >= 0 /\ q.token = TokenValue /\ q.res.status # 410

\* the request's token was found and the validity check has turned it down
Refused(q) == q.at >= 0 /\ q.token = TokenValue /\ q.res.status = 410

\* C11: the validity check of the upload and status-check handlers lets a
\* found token pass exactly when the token is not revoked, the clock is
\* strictly before expiresAt and uploadsUsed < maxUploads; at the instant
\* now = expiresAt the token is turned down.
C11_AcceptsIffUsable ==
    \A r \in Reqs :
        /\ Accepted(Req(r)) => Usable(Seen(Req(r)), Req(r).at)
        /\ Refused(Req(r)) => ~Usable(Seen(Req(r)), Req(r).at)

\* the conditions of a sound token that fail for the record the request saw
Flipped(q) ==
    {c \in {"status", "quota", "expiry"} :
        \/ c = "status" /\ store.status # "active"
        \/ c = "quota" /\ q.usedAtLookup >= store.maxUploads
        \/ c = "expiry" /\ store.expiresAt < q.at}

\* C12: an active, unexhausted, unexpired token passes the validity check,
\* and a token that differs from such a one in exactly one condition (status
\* expired or revoked, uploadsUsed >= maxUploads, expiresAt in the past) is
\* turned down.
C12_OneFlipRefuses ==
    \A r \in Reqs :
        LET q == Req(r)
        IN  (q.at >= 0 /\ q.token = TokenValue) =>
              /\ Flipped(q) = {} => q.res.status # 410
              /\ Cardinality(Flipped(q)) = 1 => q.res.status = 410

\* C13: the remainingUploads of every 200 response equals maxUploads minus
\* the uploadsUsed that the Token Store holds right after this request's
\* commit, whatever failed and whatever other requests committed meanwhile.
C13_RemainingIsStoreAfterCommit ==
    [][\A r \in Reqs :
          (reqs[r].pc = "commit" /\ reqs'[r].pc = "done") =>
              reqs'[r].res.remaining = store'.maxUploads - store'.uploadsUsed]_vars

\* an upload request whose token findOne did not find
UploadNotFound(q) ==
    q.variant \in Variants /\ q.at >= 0 /\ q.token # TokenValue

\* an upload request whose token findOne found revoked, expired or used up
UploadUnusable(q) ==
    /\ q.variant \in Variants /\ q.at >= 0 /\ q.token = TokenValue
    /\ \/ store.status = "revoked"
       \/ store.expiresAt < q.at
       \/ q.usedAtLookup >= store.maxUploads

\* C14: on the upload path the response to a token that does not exist is
\* the response to a token that exists but is revoked, expired or used up:
\* status 410, the same body, no reason field.
C14_NotFoundLooksInvalid ==
    \A r, s \in Reqs :
        (UploadNotFound(Req(r)) /\ UploadUnusable(Req(s))) =>
            /\ Req(r).pc = "done" /\ Req(s).pc = "done"
            /\ Req(r).res = Req(s).res
            /\ Req(r).res.status = 410
            /\ Req(r).reason = "" /\ Req(s).reason = ""

C14_Witness ==
    /\ UploadNotFound(Req("r1")) /\ Req("r1").res.status = 410
    /\ UploadUnusable(Req("r2")) /\ Req("r2").res.status = 410
    /\ store.status = "revoked"
    /\ Req("r1").variant # Req("r2").variant

\* C15: when the credential exchange fails during an upload, the request
\* ends with status 500 and the body {error: 'Internal server error'}; the
\* failure is not turned into a file's 'Upload failed' in a 200 response.
C15_ExchangeFailureIs500 ==
    \A r \in Reqs :
        LET q == Req(r)
        IN  (q.last.kind = "cred" /\ q.last.outcome # "2xx") =>
                /\ q.pc = "done"
                /\ q.res = Response(500, "Internal server error", "", -1)

\* C16: getAccessToken makes the credential exchange exactly when no token
\* is cached or the cached token's expiry is 60 seconds or less away, and
\* otherwise returns the cached token; it never returns a cached token whose
\* expiry is within 60 seconds; after a successful exchange the cached token
\* and expiry are those of that exchange's response.
C16_ExchangeExactlyWhenStale ==
    \A r \in Reqs :
        LET c == Req(r)
            stale == c.seen.token = "" \/ c.seen.expiry - c.calledAt <= 60 * 1000
        IN  /\ c.source = "cache" =>
                  /\ ~stale
                  /\ c.returned = c.seen.token
                  /\ c.after = c.seen
            /\ (c.pc = "cred" \/ c.source \in {"exchange", "error"}) => stale
            /\ c.source = "exchange" =>
                  /\ c.returned = c.response.access_token
                  /\ c.after = Cache(c.response.access_token,
                                     c.answeredAt + c.response.expires_in * 1000)
            /\ c.source = "error" => c.returned = ""

C16_Witness ==
    /\ Req("r1").source = "cache"
    /\ Req("r1").seen.expiry - Req("r1").calledAt = 61 * 1000
    /\ Req("r2").source = "exchange"
    /\ Req("r2").seen.token # ""
    /\ Req("r2").seen.expiry - Req("r2").calledAt = 60 * 1000

\* C17: a buffer of at most 4 MiB (exactly 4 MiB included) goes in one
\* small-file PUT with no session; a buffer of 4 MiB + 1 or more goes through
\* an upload session whose chunk PUTs carry ranges that start at 0, are at
\* most 4 MiB long (only the last may be shorter), follow one another without
\* gap or overlap, end at totalSize - 1 and add up to totalSize, each
\* Content-Range naming exactly the bytes sent.
C17_RoutingAndRanges ==
    \A r \in Reqs :
        LET q == Req(r)
            c == q.last
            len == c.end - c.start + 1
        IN  /\ c.kind \in {"put", "session", "chunk"} =>
                  c.total = q.files[c.file].size
            /\ c.kind = "put" => c.total <= 4 * 1024 * 1024
            /\ c.kind \in {"session", "chunk"} => c.total >= 4 * 1024 * 1024 + 1
            /\ c.kind = "session" /\ q.pc = "chunk" => q.sent = 0 /\ q.off = 0
            /\ c.kind = "chunk" =>
                  /\ 0 <= c.start /\ c.start <= c.end /\ c.end <= c.total - 1
                  /\ len <= 4 * 1024 * 1024
                  /\ len < 4 * 1024 * 1024 => c.end = c.total - 1
                  /\ q.body = [from |-> c.start, to |-> c.end + 1]
                  /\ q.sent = c.end + 1
                  /\ q.sent = c.start + len
                  /\ q.pc = "chunk" => q.off = c.end + 1 /\ q.off < c.total
                  /\ (Len(q.results) >= c.file /\ q.results[c.file]) =>
                        c.end = c.total - 1 /\ q.sent = c.total

\* a 4 MiB + 1 upload finished: the last range is the single byte 4194304
C17_Witness ==
    \E r \in Reqs :
        LET q == Req(r)
        IN  /\ q.last.kind = "chunk"
            /\ q.last.total = 4 * 1024 * 1024 + 1
            /\ q.last.start = 4 * 1024 * 1024 /\ q.last.end = q.last.start
            /\ q.results = <<TRUE>>

\* the response of the first failing check when the checks are made in the
\* order: token required, no files, token not found or invalid, too many
\* files, a disallowed type in any file, an oversized file; NoResponse when
\* every check passes
FirstFailingCheck(q) ==
    LET files == q.req.files
        remaining == store.maxUploads - q.usedAtLookup
        badType == {k \in 1..Len(files) : files[k].mimeType \notin ALLOWED_MIME_TYPES}
        tooBig == {k \in 1..Len(files) : files[k].size > 50 * 1024 * 1024}
        first(S) == CHOOSE k \in S : \A j \in S : k <= j
    IN  IF q.req.token = ""
        THEN Response(400, "Token is required", "", -1)
        ELSE IF Len(files) = 0
        THEN Response(400, "No files provided", "", -1)
        ELSE IF UploadNotFound(q) \/ UploadUnusable(q)
        THEN Response(410, "Upload link is no longer valid", "", -1)
        ELSE IF Len(files) > remaining
        THEN Response(400, "Only N upload(s) remaining", "", remaining)
        ELSE IF badType # {}
        THEN Response(400, "File type not allowed", files[first(badType)].filename, -1)
        ELSE IF tooBig # {}
        THEN Response(400, "File too large", files[first(tooBig)].filename, -1)
        ELSE NoResponse

\* C19: the upload handler answers with the first failing check of that
\* order: a request with files but no token gets 400 'Token is required',
\* and a batch with an oversized file before a file of a disallowed type is
\* rejected for the type.
C19_FirstFailingCheckAnswers ==
    \A r \in Reqs :
        LET q == Req(r)
        IN  (q.pc # "idle" /\ q.req.hasBoundary /\ (q.pc = "done" \/ q.at >= 0)) =>
                IF FirstFailingCheck(q) = NoResponse
                THEN Validated(q)
                ELSE q.pc = "done" /\ q.res = FirstFailingCheck(q)

\* the storage path of a relayed file: the folder of the token's user, the
\* Date.now() of its loop iteration, the client's filename
PathOf(entry) == <<"AIFile-Uploads", "userId", entry.ts, entry.fileName>>

\* C20: within one request any two distinct files, two files of the same
\* client filename included, are stored under distinct paths, so that no
\* file of a batch overwrites another.
C20_DistinctPaths ==
    \A r \in Reqs :
        \A j, k \in 1..Len(Req(r).staged) :
            j # k => PathOf(Req(r).staged[j]) # PathOf(Req(r).staged[k])

\* C18: from a well-formed body with one token field and k file parts, the
\* token field at any position, the decoder returns that token value (less
\* outer whitespace) and exactly the k files in body order, each with its
\* filename, declared MIME type and content bytes.
C18_DecodeReturnsParts ==
    \A r \in Reqs :
        LET d == Req(r)
        IN  d.pc = "done" =>
                /\ d.out.ok
                /\ Trim(d.out.token) = Trim(d.req.token)
                /\ d.out.files = d.req.files

\* C21: a part of the body without CRLFCRLF is skipped without failing the
\* parse, and the decoder returns the token and the ordered files that it
\* returns for the body without that part.
C21_BrokenPartSkipped ==
    \A r \in Reqs :
        LET d == Req(r)
        IN  d.pc = "done" =>
                /\ d.out.ok
                /\ d.out = d.ref
                /\ d.out.token = d.req.token
                /\ d.out.files = d.req.files

\* a broken file part between two sound files, after the token field
C21_Witness ==
    \E r \in Reqs :
        LET d == Req(r)
        IN  /\ d.pc = "done"
            /\ filenameMatch(d.bad) = "x.pdf"
            /\ d.pos = 0 /\ d.j = 2
            /\ d.out.token = TokenValue
            /\ Len(d.out.files) = 2

\* a finished or pending status check whose findOne has answered
StatusChecked(q) == q.variant \in CheckVariants /\ q.at >= 0

\* the reason by the priority revoked, expired, limit_reached
ReasonByPriority(doc, t) ==
    IF doc.status = "revoked" THEN "revoked"
    ELSE IF ~(t < doc.expiresAt) THEN "expired"
    ELSE "limit_reached"

\* the reason names a condition that holds for the token
ReasonHolds(reason, doc, t) ==
    \/ reason = "revoked" /\ doc.status = "revoked"
    \/ reason = "expired" /\ ~(t < doc.expiresAt)
    \/ reason = "limit_reached" /\ doc.uploadsUsed >= doc.maxUploads

\* C22: a status check answers 404 to a token that is not found, 200 with
\* remainingUploads = maxUploads - uploadsUsed to a usable token, and 410 to
\* an unusable token with the reason of the priority revoked, expired,
\* limit_reached, a reason that holds for the token; the two status-check
\* handlers give the same status and reason for the same record and clock.
C22_StatusCheckAnswers ==
    /\ \A r \in Reqs :
          LET q == Req(r)
              doc == Seen(q)
          IN  StatusChecked(q) =>
                IF q.token # TokenValue
                THEN q.pc = "done" /\ q.res.status = 404 /\ q.reason = ""
                ELSE IF Usable(doc, q.at)
                THEN \/ q.pc = "user"
                     \/ /\ q.pc = "done" /\ q.res.status = 200
                        /\ q.res.remaining = doc.maxUploads - doc.uploadsUsed
                        /\ q.reason = ""
                ELSE /\ q.pc = "done" /\ q.res.status = 410
                     /\ q.reason = ReasonByPriority(doc, q.at)
                     /\ ReasonHolds(q.reason, doc, q.at)
    /\ \A r, s \in Reqs :
          LET q == Req(r)
              p == Req(s)
          IN  (/\ StatusChecked(q) /\ StatusChecked(p)
               /\ q.pc = "done" /\ p.pc = "done"
               /\ q.token = p.token /\ q.at = p.at
               /\ q.usedAtLookup = p.usedAtLookup) =>
                  q.res.status = p.res.status /\ q.reason = p.reason

====
